---- MODULE Spec2Model ----
(***************************************************************************)
(* Model of conda_build/link.py: BaseLinkErrorHandler.handle() and the     *)
(* LinkErrorHandler policy (_categorize_errors, _process_errors,           *)
(* _finalize).  One handler instance, constructed over a collection of     *)
(* link errors, on which handle() is invoked.                              *)
(*                                                                         *)
(* The interpreter executes assert statements (it runs without -O), a dict *)
(* iterates in insertion order (Python 3.7 and later), and a set iterates  *)
(* in an order the program does not control.  An exception that leaves     *)
(* handle() reaches the caller, who may invoke handle() again; sys.exit    *)
(* ends the process.                                                       *)
(***************************************************************************)
EXTENDS Integers, Sequences, FiniteSets, TLC

VARIABLES
    errors,                     \* self.errors (exception.errors), a sequence
    ignore_link_errors,         \* self.ignore_link_errors
    overrides,                  \* abstract methods the instance's class supplies
    names,                      \* self.names
    broken,                     \* self.broken
    extern,                     \* self.extern, an insertion-ordered mapping
    new_library_recipe_needed,  \* self.new_library_recipe_needed
    error_messages,             \* self.error_messages (Unset until assigned)
    stderr,                     \* the writes made to sys.stderr, in order
    pc,                         \* position of the control flow inside handle()
    idx,                        \* position of the for loop over self.errors
    raised,                     \* exception propagating out of handle()
    raised_in,                  \* the method that raised it
    exit_status,                \* the statuses passed to sys.exit()
    runs,                       \* handle() invocations made on the instance
    calls,                      \* methods handle() has called in this invocation
    mark                        \* Len(stderr) when this invocation started

vars == <<errors, ignore_link_errors, overrides, names, broken, extern,
          new_library_recipe_needed, error_messages, stderr, pc, idx,
          raised, raised_in, exit_status, runs, calls, mark>>

----------------------------------------------------------------------------
(* Bounds of the model *)

MaxErrors == 3
MaxRuns == 2

LibNames == {"libfoo.so", "libbar.so"}
LinkTargets == {"/opt/libs/libbar.so", "/usr/lib/libbar.so"}

----------------------------------------------------------------------------
(* Link error records (conda_build.dll) *)

NoTarget == "<no actual_link_target>"
\* The value of an attribute the instance does not have (reading it raises
\* AttributeError); it has the shape of a list of texts so that it can be
\* compared with one, and no list of messages equals it
Unset == << <<"<unset>">> >>
NoException == "<none>"
\* No call of sys.exit() was made
NoExit == <<>>

\* A record that is a BrokenLinkage but not an ExternalLinkage
BrokenLinkage(n) ==
    [cls |-> "BrokenLinkage", dependent_library_name |-> n,
     actual_link_target |-> NoTarget]

\* ExternalLinkage derives from BrokenLinkage
ExternalLinkage(n, t) ==
    [cls |-> "ExternalLinkage", dependent_library_name |-> n,
     actual_link_target |-> t]

\* A link error that is neither of the two
OtherLinkError(n) ==
    [cls |-> "LinkError", dependent_library_name |-> n,
     actual_link_target |-> NoTarget]

LinkErrors ==
    {BrokenLinkage(n) : n \in LibNames}
    \cup {ExternalLinkage(n, t) : n \in LibNames, t \in LinkTargets}
    \cup {OtherLinkError(n) : n \in LibNames}

\* isinstance(error, ExternalLinkage)
IsExternalLinkage(error) == error.cls = "ExternalLinkage"

\* isinstance(error, BrokenLinkage): true of the subclass as well
IsBrokenLinkage(error) == error.cls \in {"BrokenLinkage", "ExternalLinkage"}

ErrorCollections == UNION {[1..n -> LinkErrors] : n \in 0..MaxErrors}

----------------------------------------------------------------------------
(* Insertion-ordered mapping (dict): a sequence of <<key, value>> items *)

DictKeys(d) == [j \in 1..Len(d) |-> d[j][1]]
DictValues(d) == [j \in 1..Len(d) |-> d[j][2]]
DictKeySet(d) == {d[j][1] : j \in 1..Len(d)}

\* Mutant: an existing key keeps its first value (setdefault)
MutDictSetDefault(d, k, v) ==
    IF \E j \in 1..Len(d) : d[j][1] = k THEN d ELSE Append(d, <<k, v>>)

\* Mutant: assigning to an existing key moves the key to the end
MutDictSetItem(d, k, v) ==
    Append(SelectSeq(d, LAMBDA item : item[1] # k), <<k, v>>)

\* d[k] = v: a new key goes to the end, an existing key keeps its place
DictSetItem(d, k, v) ==
    IF k \in DictKeySet(d)
    THEN [j \in 1..Len(d) |-> IF d[j][1] = k THEN <<k, v>> ELSE d[j]]
    ELSE Append(d, <<k, v>>)

----------------------------------------------------------------------------
(* Text: a string is a sequence of pieces *)

\* The module's final_message (the back quotes of the source are left out)
final_message ==
    <<"\n",
      "See http://conda.pydata.org/docs/link-errors.html for more info.\n",
      "\n",
      "Tip: run conda build --ignore-link-errors to ignore these errors and\n",
      "build the package anyway.  Note that the resulting package will not work\n",
      "if you install it on a different system *unless* that system also has all\n",
      "of the libraries listed above installed.\n">>

RECURSIVE Join(_, _)
\* sep.join(items) for a sequence of strings
Join(sep, items) ==
    IF Len(items) = 0 THEN <<>>
    ELSE IF Len(items) = 1 THEN <<items[1]>>
    ELSE <<items[1], sep>> \o Join(sep, Tail(items))

RECURSIVE JoinTexts(_, _)
\* sep.join(texts) for a sequence of texts
JoinTexts(sep, texts) ==
    IF Len(texts) = 0 THEN <<>>
    ELSE IF Len(texts) = 1 THEN texts[1]
    ELSE texts[1] \o <<sep>> \o JoinTexts(sep, Tail(texts))

\* The orders in which iterating over a set can yield its elements
Orderings(S) ==
    {s \in [1..Cardinality(S) -> S] : \A a, b \in DOMAIN s : a # b => s[a] # s[b]}

ExternalMessage(paths) ==
    <<"Error: external linkage detected to libraries living outside the build root:\n    ">>
    \o Join("\n   ", paths) \o <<"\n">>

BrokenMessage(libs) ==
    <<"Error: broken linkage detected for the following packages: ">>
    \o Join(", ", libs)

\* Mutant: the broken-linkage message is put first
MutBuildMessagesBrokenFirst(paths, libs) ==
    (IF Len(libs) # 0 THEN <<BrokenMessage(libs)>> ELSE <<>>)
    \o (IF Len(paths) # 0 THEN <<ExternalMessage(paths)>> ELSE <<>>)

\* Mutant: the broken libraries get no message
MutBuildMessages(paths, libs) ==
    IF Len(paths) # 0 THEN <<ExternalMessage(paths)>> ELSE <<>>

\* msgs as built by _process_errors; libs is list(self.broken)
BuildMessages(paths, libs) ==
    (IF Len(paths) # 0 THEN <<ExternalMessage(paths)>> ELSE <<>>)
    \o (IF Len(libs) # 0 THEN <<BrokenMessage(libs)>> ELSE <<>>)

----------------------------------------------------------------------------
(* Construction *)

AbstractMethods == {"_categorize_errors", "_process_errors"}

Init ==
    /\ errors \in ErrorCollections
    /\ ignore_link_errors \in BOOLEAN
    /\ overrides \in SUBSET AbstractMethods
    /\ names = {}
    /\ broken = {}
    /\ extern = <<>>
    /\ new_library_recipe_needed = <<>>
    /\ error_messages = Unset
    /\ stderr = <<>>
    /\ pc = "constructed"
    /\ idx = 0
    /\ raised = NoException
    /\ raised_in = NoException
    /\ exit_status = NoExit
    /\ runs = 0
    /\ calls = <<>>
    /\ mark = 0

----------------------------------------------------------------------------
(* handle() *)

\* Mutant: handle() calls _finalize before _process_errors
MutAfterCall(method) ==
    CASE method = "_categorize_errors" -> "_finalize"
      [] method = "_finalize" -> "_process_errors"
      [] method = "_process_errors" -> "exit_check"

\* The statement handle() goes to when the call of `method` returns
AfterCall(method) ==
    CASE method = "_categorize_errors" -> "_process_errors"
      [] method = "_process_errors" -> "_finalize"
      [] method = "_finalize" -> "exit_check"

\* An exception leaves the method and propagates out of handle()
Raise(exc, method) ==
    /\ pc' = "raised"
    /\ raised' = exc
    /\ raised_in' = method

\* `method` returns to handle(), which makes its next call
Return(method) ==
    /\ pc' = AfterCall(method)
    /\ calls' = IF AfterCall(method) = "exit_check" THEN calls
                ELSE Append(calls, AfterCall(method))

\* Mutant: the base _categorize_errors returns instead of raising
MutCategorizeNotImplemented ==
    /\ pc = "_categorize_errors"
    /\ "_categorize_errors" \notin overrides
    /\ Return("_categorize_errors")
    /\ UNCHANGED <<errors, ignore_link_errors, overrides, names, broken,
                   extern, new_library_recipe_needed, error_messages, stderr,
                   idx, raised, raised_in, exit_status, runs, mark>>

\* The caller invokes handle(); handle() calls self._categorize_errors()
Handle ==
    /\ pc \in {"constructed", "returned", "raised"}
    /\ runs < MaxRuns
    /\ runs' = runs + 1
    /\ pc' = "_categorize_errors"
    /\ calls' = <<"_categorize_errors">>
    /\ idx' = 1
    /\ mark' = Len(stderr)
    /\ raised' = NoException
    /\ raised_in' = NoException
    /\ UNCHANGED <<errors, ignore_link_errors, overrides, names, broken,
                   extern, new_library_recipe_needed, error_messages, stderr,
                   exit_status>>

\* BaseLinkErrorHandler._categorize_errors
CategorizeNotImplemented ==
    /\ pc = "_categorize_errors"
    /\ "_categorize_errors" \notin overrides
    /\ Raise("NotImplementedError", "_categorize_errors")
    /\ UNCHANGED <<errors, ignore_link_errors, overrides, names, broken,
                   extern, new_library_recipe_needed, error_messages, stderr,
                   idx, exit_status, runs, calls, mark>>

\* Mutant: an external record is counted as broken as well
MutCategorizeExternal ==
    /\ pc = "_categorize_errors"
    /\ "_categorize_errors" \in overrides
    /\ idx <= Len(errors)
    /\ IsExternalLinkage(errors[idx])
    /\ names' = names \cup {errors[idx].dependent_library_name}
    /\ extern' = DictSetItem(extern, errors[idx].dependent_library_name,
                             errors[idx].actual_link_target)
    /\ broken' = broken \cup {errors[idx].dependent_library_name}
    /\ idx' = idx + 1
    /\ UNCHANGED <<errors, ignore_link_errors, overrides,
                   new_library_recipe_needed, error_messages, stderr, pc,
                   raised, raised_in, exit_status, runs, calls, mark>>

\* LinkErrorHandler._categorize_errors: one iteration, ExternalLinkage
CategorizeExternal ==
    /\ pc = "_categorize_errors"
    /\ "_categorize_errors" \in overrides
    /\ idx <= Len(errors)
    /\ IsExternalLinkage(errors[idx])
    /\ names' = names \cup {errors[idx].dependent_library_name}
    /\ extern' = DictSetItem(extern, errors[idx].dependent_library_name,
                             errors[idx].actual_link_target)
    /\ idx' = idx + 1
    /\ UNCHANGED <<errors, ignore_link_errors, overrides, broken,
                   new_library_recipe_needed, error_messages, stderr, pc,
                   raised, raised_in, exit_status, runs, calls, mark>>

\* Mutant: the name of a broken library is not added to self.names
MutCategorizeBroken ==
    /\ pc = "_categorize_errors"
    /\ "_categorize_errors" \in overrides
    /\ idx <= Len(errors)
    /\ ~IsExternalLinkage(errors[idx])
    /\ IsBrokenLinkage(errors[idx])
    /\ broken' = broken \cup {errors[idx].dependent_library_name}
    /\ idx' = idx + 1
    /\ UNCHANGED <<errors, ignore_link_errors, overrides, names, extern,
                   new_library_recipe_needed, error_messages, stderr, pc,
                   raised, raised_in, exit_status, runs, calls, mark>>

\* LinkErrorHandler._categorize_errors: one iteration, BrokenLinkage
CategorizeBroken ==
    /\ pc = "_categorize_errors"
    /\ "_categorize_errors" \in overrides
    /\ idx <= Len(errors)
    /\ ~IsExternalLinkage(errors[idx])
    /\ IsBrokenLinkage(errors[idx])
    /\ names' = names \cup {errors[idx].dependent_library_name}
    /\ broken' = broken \cup {errors[idx].dependent_library_name}
    /\ idx' = idx + 1
    /\ UNCHANGED <<errors, ignore_link_errors, overrides, extern,
                   new_library_recipe_needed, error_messages, stderr, pc,
                   raised, raised_in, exit_status, runs, calls, mark>>

\* Mutant: without the assert the record is taken as broken
MutCategorizeNeither ==
    /\ pc = "_categorize_errors"
    /\ "_categorize_errors" \in overrides
    /\ idx <= Len(errors)
    /\ ~IsExternalLinkage(errors[idx])
    /\ ~IsBrokenLinkage(errors[idx])
    /\ names' = names \cup {errors[idx].dependent_library_name}
    /\ broken' = broken \cup {errors[idx].dependent_library_name}
    /\ idx' = idx + 1
    /\ UNCHANGED <<errors, ignore_link_errors, overrides, extern,
                   new_library_recipe_needed, error_messages, stderr, pc,
                   raised, raised_in, exit_status, runs, calls, mark>>

\* LinkErrorHandler._categorize_errors: one iteration, the assert fails
CategorizeNeither ==
    /\ pc = "_categorize_errors"
    /\ "_categorize_errors" \in overrides
    /\ idx <= Len(errors)
    /\ ~IsExternalLinkage(errors[idx])
    /\ ~IsBrokenLinkage(errors[idx])
    /\ names' = names \cup {errors[idx].dependent_library_name}
    /\ Raise("AssertionError", "_categorize_errors")
    /\ UNCHANGED <<errors, ignore_link_errors, overrides, broken, extern,
                   new_library_recipe_needed, error_messages, stderr, idx,
                   exit_status, runs, calls, mark>>

\* Mutant: the overlap is let through when link errors are ignored
MutCategorizeOverlap ==
    /\ pc = "_categorize_errors"
    /\ "_categorize_errors" \in overrides
    /\ idx > Len(errors)
    /\ extern # <<>> /\ broken # {}
    /\ \E n \in broken : \E j \in 1..Len(extern) : extern[j][1] = n
    /\ IF ignore_link_errors
       THEN /\ new_library_recipe_needed' =
                   new_library_recipe_needed \o DictValues(extern)
            /\ Return("_categorize_errors")
            /\ UNCHANGED <<raised, raised_in>>
       ELSE /\ Raise("AssertionError", "_categorize_errors")
            /\ UNCHANGED <<new_library_recipe_needed, calls>>
    /\ UNCHANGED <<errors, ignore_link_errors, overrides, names, broken,
                   extern, error_messages, stderr, idx, exit_status, runs,
                   mark>>

\* Mutant: assert_disjoint never fails
MutDisjoint(left, right) == TRUE

\* assert_disjoint(left, right) passes
Disjoint(left, right) == left \cap right = {}

\* LinkErrorHandler._categorize_errors after the loop: assert_disjoint fails
CategorizeOverlap ==
    /\ pc = "_categorize_errors"
    /\ "_categorize_errors" \in overrides
    /\ idx > Len(errors)
    /\ ~Disjoint(DictKeySet(extern), broken)
    /\ Raise("AssertionError", "_categorize_errors")
    /\ UNCHANGED <<errors, ignore_link_errors, overrides, names, broken,
                   extern, new_library_recipe_needed, error_messages, stderr,
                   idx, exit_status, runs, calls, mark>>

\* LinkErrorHandler._categorize_errors after the loop: the paths of
\* self.extern.items() are appended and the method returns (the
\* `if self.broken:` block in between only binds a local that is not used)
CategorizeFinish ==
    /\ pc = "_categorize_errors"
    /\ "_categorize_errors" \in overrides
    /\ idx > Len(errors)
    /\ Disjoint(DictKeySet(extern), broken)
    /\ new_library_recipe_needed' =
           new_library_recipe_needed \o DictValues(extern)
    /\ Return("_categorize_errors")
    /\ UNCHANGED <<errors, ignore_link_errors, overrides, names, broken,
                   extern, error_messages, stderr, idx, raised, raised_in,
                   exit_status, runs, mark>>

\* BaseLinkErrorHandler._process_errors
ProcessNotImplemented ==
    /\ pc = "_process_errors"
    /\ "_process_errors" \notin overrides
    /\ Raise("NotImplementedError", "_process_errors")
    /\ UNCHANGED <<errors, ignore_link_errors, overrides, names, broken,
                   extern, new_library_recipe_needed, error_messages, stderr,
                   idx, exit_status, runs, calls, mark>>

\* Mutant: without `assert msgs` the empty list is written and kept
MutProcessNoMessages ==
    /\ pc = "_process_errors"
    /\ "_process_errors" \in overrides
    /\ \E libs \in Orderings(broken) :
           BuildMessages(new_library_recipe_needed, libs) = <<>>
    /\ stderr' = Append(stderr, <<"\n">>)
    /\ error_messages' = <<>>
    /\ Return("_process_errors")
    /\ UNCHANGED <<errors, ignore_link_errors, overrides, names, broken,
                   extern, new_library_recipe_needed, idx, raised, raised_in,
                   exit_status, runs, mark>>

\* LinkErrorHandler._process_errors: assert msgs fails
ProcessNoMessages ==
    /\ pc = "_process_errors"
    /\ "_process_errors" \in overrides
    /\ \E libs \in Orderings(broken) :
           BuildMessages(new_library_recipe_needed, libs) = <<>>
    /\ Raise("AssertionError", "_process_errors")
    /\ UNCHANGED <<errors, ignore_link_errors, overrides, names, broken,
                   extern, new_library_recipe_needed, error_messages, stderr,
                   idx, exit_status, runs, calls, mark>>

\* Mutant: the reported paths are cleared once they have been written
MutProcessErrors ==
    /\ pc = "_process_errors"
    /\ "_process_errors" \in overrides
    /\ \E libs \in Orderings(broken) :
           LET msgs == BuildMessages(new_library_recipe_needed, libs) IN
           /\ msgs # <<>>
           /\ stderr' = Append(stderr, JoinTexts("\n", msgs) \o <<"\n">>)
           /\ error_messages' = msgs
    /\ new_library_recipe_needed' = <<>>
    /\ Return("_process_errors")
    /\ UNCHANGED <<errors, ignore_link_errors, overrides, names, broken,
                   extern, idx, raised, raised_in, exit_status, runs, mark>>

\* LinkErrorHandler._process_errors: the messages are written and kept
ProcessErrors ==
    /\ pc = "_process_errors"
    /\ "_process_errors" \in overrides
    /\ \E libs \in Orderings(broken) :
           LET msgs == BuildMessages(new_library_recipe_needed, libs) IN
           /\ msgs # <<>>
           /\ stderr' = Append(stderr, JoinTexts("\n", msgs) \o <<"\n">>)
           /\ error_messages' = msgs
    /\ Return("_process_errors")
    /\ UNCHANGED <<errors, ignore_link_errors, overrides, names, broken,
                   extern, new_library_recipe_needed, idx, raised, raised_in,
                   exit_status, runs, mark>>

\* Mutant: _finalize writes nothing when link errors are ignored
MutFinalize ==
    /\ pc = "_finalize"
    /\ stderr' = IF ignore_link_errors THEN stderr
                 ELSE Append(stderr, final_message \o <<"\n">>)
    /\ Return("_finalize")
    /\ UNCHANGED <<errors, ignore_link_errors, overrides, names, broken,
                   extern, new_library_recipe_needed, error_messages, idx,
                   raised, raised_in, exit_status, runs, mark>>

\* BaseLinkErrorHandler._finalize
Finalize ==
    /\ pc = "_finalize"
    /\ stderr' = Append(stderr, final_message \o <<"\n">>)
    /\ Return("_finalize")
    /\ UNCHANGED <<errors, ignore_link_errors, overrides, names, broken,
                   extern, new_library_recipe_needed, error_messages, idx,
                   raised, raised_in, exit_status, runs, mark>>

\* Mutant: the flag is not consulted
MutExitOnErrors(ignore) == TRUE

\* if not self.ignore_link_errors: sys.exit(1)
ExitOnErrors(ignore) == ~ignore

\* Mutant: sys.exit(0)
MutExit ==
    /\ pc = "exit_check"
    /\ ExitOnErrors(ignore_link_errors)
    /\ pc' = "exited"
    /\ exit_status' = <<0>>
    /\ UNCHANGED <<errors, ignore_link_errors, overrides, names, broken,
                   extern, new_library_recipe_needed, error_messages, stderr,
                   idx, raised, raised_in, runs, calls, mark>>

\* handle(): sys.exit(1)
Exit ==
    /\ pc = "exit_check"
    /\ ExitOnErrors(ignore_link_errors)
    /\ pc' = "exited"
    /\ exit_status' = <<1>>
    /\ UNCHANGED <<errors, ignore_link_errors, overrides, names, broken,
                   extern, new_library_recipe_needed, error_messages, stderr,
                   idx, raised, raised_in, runs, calls, mark>>

\* handle() returns to its caller
ReturnToCaller ==
    /\ pc = "exit_check"
    /\ ~ExitOnErrors(ignore_link_errors)
    /\ pc' = "returned"
    /\ UNCHANGED <<errors, ignore_link_errors, overrides, names, broken,
                   extern, new_library_recipe_needed, error_messages, stderr,
                   idx, raised, raised_in, exit_status, runs, calls, mark>>

Next ==
    \/ Handle
    \/ CategorizeNotImplemented
    \/ CategorizeExternal
    \/ CategorizeBroken
    \/ CategorizeNeither
    \/ CategorizeOverlap
    \/ CategorizeFinish
    \/ ProcessNotImplemented
    \/ ProcessNoMessages
    \/ ProcessErrors
    \/ Finalize
    \/ Exit
    \/ ReturnToCaller

Spec == Init /\ [][Next]_vars

----------------------------------------------------------------------------
(* States of an invocation *)

Methods == <<"_categorize_errors", "_process_errors", "_finalize">>

IsLinkErrorHandler == overrides = AbstractMethods

\* handle() is over: it returned, raised, or exited the process
InvocationEnded == pc \in {"returned", "raised", "exited"}

\* _process_errors has returned in this invocation
ProcessCompleted == pc \in {"_finalize", "exit_check", "returned", "exited"}

\* _categorize_errors has returned in this invocation
CategorizeCompleted ==
    \/ pc = "_process_errors"
    \/ ProcessCompleted
    \/ pc = "raised" /\ raised_in = "_process_errors"

Range(s) == {s[j] : j \in 1..Len(s)}

\* The collection names one library as plain broken and as external
Overlapping(errs) ==
    \E a, b \in 1..Len(errs) :
        /\ IsExternalLinkage(errs[a])
        /\ ~IsExternalLinkage(errs[b]) /\ IsBrokenLinkage(errs[b])
        /\ errs[a].dependent_library_name = errs[b].dependent_library_name

\* A non-empty collection of broken and external records without overlap
WellFormed(errs) ==
    /\ Len(errs) > 0
    /\ \A a \in 1..Len(errs) : IsBrokenLinkage(errs[a])
    /\ ~Overlapping(errs)

RECURSIVE FirstOccurrences(_)
\* s without the later repetitions of its elements
FirstOccurrences(s) ==
    IF Len(s) = 0 THEN <<>>
    ELSE LET front == FirstOccurrences(SubSeq(s, 1, Len(s) - 1)) IN
         IF s[Len(s)] \in Range(front) THEN front
         ELSE Append(front, s[Len(s)])

\* The library names of the external records, in the order of the input
ExternalNames(errs) ==
    LET ext == SelectSeq(errs, IsExternalLinkage) IN
    [j \in 1..Len(ext) |-> ext[j].dependent_library_name]

----------------------------------------------------------------------------
(* C1 *)

\* C1: once _categorize_errors has completed, and in every later state of
\* the invocation, names = broken \cup keys(extern) and broken and
\* keys(extern) are disjoint.
C1_Partition ==
    CategorizeCompleted =>
        /\ names = broken \cup DictKeySet(extern)
        /\ broken \cap DictKeySet(extern) = {}

C1_Witness ==
    /\ pc = "_finalize"
    /\ broken # {}
    /\ extern # <<>>
    /\ Len(errors) = MaxErrors

----------------------------------------------------------------------------
(* C2 *)

\* C2: after _categorize_errors completes on a freshly constructed
\* instance, new_library_recipe_needed has len(extern) entries, equals the
\* values of extern in the mapping's order, and that order is the order of
\* the first occurrence of each external library name in the input.
C2_RecipesInFirstSeenOrder ==
    (runs = 1 /\ CategorizeCompleted) =>
        /\ Len(new_library_recipe_needed) = Cardinality(DictKeySet(extern))
        /\ new_library_recipe_needed = DictValues(extern)
        /\ DictKeys(extern) = FirstOccurrences(ExternalNames(errors))

C2_Witness ==
    /\ runs = 1
    /\ pc = "_process_errors"
    /\ Len(errors) = 3
    /\ \A a \in 1..3 : IsExternalLinkage(errors[a])
    /\ errors[1].dependent_library_name = errors[3].dependent_library_name
    /\ errors[1].dependent_library_name # errors[2].dependent_library_name
    /\ errors[1].actual_link_target # errors[3].actual_link_target
    /\ Len(new_library_recipe_needed) = 2

----------------------------------------------------------------------------
(* C3 *)

\* C3: for a non-empty error collection on which _categorize_errors
\* completed, `assert msgs` does not fail and error_messages is non-empty
\* after _process_errors.
C3_MessagesNonEmpty ==
    (errors # <<>> /\ IsLinkErrorHandler) =>
        /\ ~(pc = "raised" /\ raised_in = "_process_errors")
        /\ ProcessCompleted =>
               (error_messages # Unset /\ Len(error_messages) > 0)

C3_Witness ==
    /\ IsLinkErrorHandler
    /\ pc = "_finalize"
    /\ runs = 1
    /\ broken # {}
    /\ extern = <<>>
    /\ error_messages # Unset

----------------------------------------------------------------------------
(* C4 *)

\* C4 as stated: with ignore_link_errors = True every invocation of
\* handle() ends by returning normally, whatever the error collection.
C4_AlwaysReturns ==
    (ignore_link_errors /\ IsLinkErrorHandler /\ InvocationEnded) =>
        pc = "returned"

\* C4, amended: with ignore_link_errors = True handle() never exits the
\* process; it returns normally when the collection is non-empty, holds only
\* broken and external records and names no library as both, and otherwise
\* ends by an AssertionError raised before _finalize is called.
C4_NeverExits ==
    (ignore_link_errors /\ IsLinkErrorHandler) =>
        /\ pc # "exited"
        /\ exit_status = NoExit
        /\ (InvocationEnded /\ WellFormed(errors)) => pc = "returned"
        /\ (InvocationEnded /\ ~WellFormed(errors)) =>
               /\ pc = "raised"
               /\ raised = "AssertionError"
               /\ "_finalize" \notin Range(calls)

C4_Witness ==
    /\ ignore_link_errors
    /\ IsLinkErrorHandler
    /\ pc = "returned"
    /\ Len(stderr) = 2

----------------------------------------------------------------------------
(* C5 *)

\* C5 as stated: with ignore_link_errors = False every invocation of
\* handle() on a non-empty collection ends by exiting with status 1.
C5_AlwaysExits ==
    (~ignore_link_errors /\ IsLinkErrorHandler /\ errors # <<>>
        /\ InvocationEnded) =>
        (pc = "exited" /\ exit_status = <<1>>)

\* The invocation is at its start, on a well-formed collection, with
\* ignore_link_errors = False
C5_Started ==
    /\ ~ignore_link_errors
    /\ IsLinkErrorHandler
    /\ WellFormed(errors)
    /\ pc = "_categorize_errors"

\* _finalize has written the closing message as the last write
FinalizeWritten ==
    /\ Len(stderr) > 0
    /\ stderr[Len(stderr)] = final_message \o <<"\n">>
    /\ calls = Methods

\* C5, amended: with ignore_link_errors = False handle() never returns
\* normally; on a collection that is non-empty, holds only broken and
\* external records and names no library as both, it always ends by
\* exiting with status 1 after _finalize; otherwise an AssertionError is
\* raised before _finalize and no exit is issued.
C5_ExitsWhenWellFormed ==
    /\ [](~ignore_link_errors =>
            /\ pc # "returned"
            /\ pc = "exited" => (exit_status = <<1>> /\ FinalizeWritten)
            /\ (IsLinkErrorHandler /\ InvocationEnded /\ WellFormed(errors))
                   => pc = "exited"
            /\ (IsLinkErrorHandler /\ InvocationEnded /\ ~WellFormed(errors))
                   => (pc = "raised" /\ raised = "AssertionError"
                       /\ exit_status = NoExit
                       /\ "_finalize" \notin Range(calls)))
    /\ (C5_Started ~> (pc = "exited" /\ exit_status = <<1>>))

C5_Witness ==
    /\ ~ignore_link_errors
    /\ pc = "exited"
    /\ exit_status = <<1>>
    /\ broken # {}
    /\ extern # <<>>

----------------------------------------------------------------------------
(* C6 *)

\* C6: when the input names one library both in a broken-linkage record and
\* in an external-linkage record, in either order, _categorize_errors
\* raises the AssertionError: it never completes, nothing has been written
\* to stderr and error_messages has not been assigned.
C6_OverlapRaisesBeforeOutput ==
    ("_categorize_errors" \in overrides /\ Overlapping(errors)) =>
        /\ ~CategorizeCompleted
        /\ stderr = <<>>
        /\ error_messages = Unset
        /\ new_library_recipe_needed = <<>>
        /\ pc \in {"constructed", "_categorize_errors", "raised"}
        /\ pc = "raised" =>
               (raised = "AssertionError" /\ raised_in = "_categorize_errors")

\* assert_disjoint has failed, on an input with the broken record first
C6_Witness ==
    /\ pc = "raised"
    /\ raised = "AssertionError"
    /\ idx > Len(errors)
    /\ Len(errors) = 2
    /\ ~IsExternalLinkage(errors[1])
    /\ IsExternalLinkage(errors[2])
    /\ errors[1].dependent_library_name = errors[2].dependent_library_name

----------------------------------------------------------------------------
(* C7 *)

IsPrefix(s, t) == Len(s) <= Len(t) /\ s = SubSeq(t, 1, Len(s))

\* The place of a control position in the order of handle()
Rank(p) ==
    CASE p = "_categorize_errors" -> 1
      [] p = "_process_errors" -> 2
      [] p = "_finalize" -> 3
      [] p = "exit_check" -> 4
      [] OTHER -> 5

\* C7: within one invocation handle() calls _categorize_errors,
\* _process_errors and _finalize in that order, each at most once and with
\* no step back; _finalize is called only after both earlier phases
\* returned without raising, and the process exits only after _finalize
\* has written its message.
C7_PhaseOrder ==
    /\ [](/\ IsPrefix(calls, Methods)
          /\ pc \in Range(Methods) => calls[Len(calls)] = pc
          /\ "_finalize" \in Range(calls) =>
                 /\ raised = NoException
                 /\ overrides = AbstractMethods
                 /\ error_messages # Unset
                 /\ Len(stderr) > mark
          /\ pc = "exit_check" => calls = Methods
          /\ pc = "exited" => (~ignore_link_errors /\ FinalizeWritten))
    /\ [][(pc \in Range(Methods) \cup {"exit_check"}) =>
              /\ Rank(pc') >= Rank(pc)
              /\ runs' = runs
              /\ pc' = "exited" => pc = "exit_check"
              /\ pc' = "_finalize" => pc \in {"_process_errors", "_finalize"}
              /\ pc' = "_process_errors" =>
                     pc \in {"_categorize_errors", "_process_errors"}]_vars

C7_Witness ==
    /\ pc = "exited"
    /\ calls = Methods
    /\ Len(errors) = MaxErrors

----------------------------------------------------------------------------
(* C8 *)

\* The piece occurs in one of the messages that starts with `head`
Mentioned(piece, head) ==
    /\ error_messages # Unset
    /\ \E m \in 1..Len(error_messages) :
           /\ error_messages[m][1] = head
           /\ \E k \in 2..Len(error_messages[m]) : error_messages[m][k] = piece

\* C8: whenever _process_errors completes, the library name of every
\* broken-linkage record is in the broken-linkage message and the
\* actual_link_target of every external-linkage record is in
\* new_library_recipe_needed and in the external-linkage message, also
\* when several records share one library name.
C8_NothingDropped ==
    ProcessCompleted =>
        \A a \in 1..Len(errors) :
            IF IsExternalLinkage(errors[a])
            THEN /\ errors[a].actual_link_target
                        \in Range(new_library_recipe_needed)
                 /\ Mentioned(errors[a].actual_link_target,
                              ExternalMessage(<<>>)[1])
            ELSE Mentioned(errors[a].dependent_library_name,
                           BrokenMessage(<<>>)[1])

----------------------------------------------------------------------------
(* C9 *)

\* What _process_errors writes for the retained messages
ErrorSection == JoinTexts("\n", error_messages) \o <<"\n">>

\* C9: only _process_errors and _finalize write to stderr, one write each:
\* _categorize_errors writes nothing, an invocation that reaches its end
\* has made exactly two writes, the error messages first and then the
\* closing message, which is always final_message.
C9_TwoWrites ==
    /\ [](/\ pc \in {"_categorize_errors", "_process_errors", "raised"}
               => Len(stderr) = mark
          /\ pc = "_finalize" =>
                 (Len(stderr) = mark + 1 /\ stderr[mark + 1] = ErrorSection)
          /\ pc \in {"exit_check", "returned", "exited"} =>
                 /\ Len(stderr) = mark + 2
                 /\ stderr[mark + 1] = ErrorSection
                 /\ stderr[mark + 2] = final_message \o <<"\n">>)
    /\ [][/\ IsPrefix(stderr, stderr')
          /\ Len(stderr') <= Len(stderr) + 1
          /\ stderr' # stderr => pc \in {"_process_errors", "_finalize"}
          /\ (pc = "_process_errors" /\ pc' = "_finalize")
                 => Len(stderr') = Len(stderr) + 1
          /\ (pc = "_finalize" /\ pc' = "exit_check")
                 => Len(stderr') = Len(stderr) + 1]_vars

C9_Witness ==
    /\ pc = "returned"
    /\ runs = 1
    /\ Len(stderr) = 2
    /\ Len(error_messages) = 2
    /\ stderr[2] = final_message \o <<"\n">>

----------------------------------------------------------------------------
(* C10 *)

\* C10: a class that does not supply _categorize_errors or _process_errors
\* fails with NotImplementedError at the first call of the missing method
\* inside handle(); when _categorize_errors is missing, no field of the
\* instance has changed, nothing was written, _finalize was not called and
\* no exit was issued.
C10_NotImplemented ==
    /\ "_categorize_errors" \notin overrides =>
           /\ names = {} /\ broken = {} /\ extern = <<>>
           /\ new_library_recipe_needed = <<>>
           /\ error_messages = Unset
           /\ stderr = <<>>
           /\ exit_status = NoExit
           /\ pc \in {"constructed", "_categorize_errors", "raised"}
           /\ pc = "raised" =>
                  /\ raised = "NotImplementedError"
                  /\ raised_in = "_categorize_errors"
                  /\ calls = <<"_categorize_errors">>
    /\ ("_categorize_errors" \in overrides /\ "_process_errors" \notin overrides)
           => /\ ~ProcessCompleted
              /\ stderr = <<>>
              /\ error_messages = Unset
              /\ exit_status = NoExit
              /\ (pc = "raised" /\ raised_in = "_process_errors") =>
                     /\ raised = "NotImplementedError"
                     /\ calls = <<"_categorize_errors", "_process_errors">>

C10_Witness ==
    /\ overrides = {}
    /\ errors # <<>>
    /\ pc = "raised"
    /\ raised = "NotImplementedError"
    /\ raised_in = "_categorize_errors"
    /\ runs = MaxRuns

----------------------------------------------------------------------------
(* C11 *)

\* C11: right after construction names, broken, extern,
\* new_library_recipe_needed and error_messages all exist and are empty,
\* and error_messages reads as an empty sequence in every state in which
\* _process_errors has never completed, also after an aborted handle().
C11_FieldsStartEmpty ==
    /\ pc = "constructed" =>
           /\ names = {} /\ broken = {} /\ extern = <<>>
           /\ new_library_recipe_needed = <<>>
           /\ error_messages = <<>>
    /\ (runs <= 1 /\ ~ProcessCompleted) => error_messages = <<>>

----------------------------------------------------------------------------
(* C12 *)

\* The library names of the records that are broken but not external
PlainBrokenNames(errs) ==
    {errs[a].dependent_library_name :
        a \in {b \in 1..Len(errs) :
                  IsBrokenLinkage(errs[b]) /\ ~IsExternalLinkage(errs[b])}}

\* C12: an external-linkage record puts its name into extern only: broken
\* never holds a name that no plain broken-linkage record carries, so a
\* collection of external records only keeps broken empty throughout and
\* ends categorization with every name in extern.
C12_ExternalFirst ==
    /\ broken \subseteq PlainBrokenNames(errors)
    /\ (\A a \in 1..Len(errors) : IsExternalLinkage(errors[a])) =>
           /\ broken = {}
           /\ CategorizeCompleted =>
                  /\ DictKeySet(extern) = names
                  /\ names = Range(ExternalNames(errors))
                  /\ Len(new_library_recipe_needed) >= Len(extern)

C12_Witness ==
    /\ pc = "_process_errors"
    /\ Len(errors) = 2
    /\ \A a \in 1..Len(errors) : IsExternalLinkage(errors[a])
    /\ Len(extern) = 2
    /\ broken = {}

----------------------------------------------------------------------------
(* C13 *)

\* 1 for a non-empty collection, 0 for an empty one
OneIf(cond) == IF cond THEN 1 ELSE 0

\* C13: _process_errors builds one message per non-empty category and
\* nothing else: error_messages has one entry if new_library_recipe_needed
\* is non-empty plus one if broken is non-empty, the external message comes
\* before the broken one, and what was written to stderr is the
\* newline-join of exactly the retained list.
C13_OneMessagePerCategory ==
    ProcessCompleted =>
        /\ Len(error_messages) =
               OneIf(new_library_recipe_needed # <<>>) + OneIf(broken # {})
        /\ new_library_recipe_needed # <<>> =>
               error_messages[1] = ExternalMessage(new_library_recipe_needed)
        /\ broken # {} =>
               error_messages[Len(error_messages)]
                   \in {BrokenMessage(libs) : libs \in Orderings(broken)}
        /\ (new_library_recipe_needed # <<>> /\ broken # {}) =>
               /\ error_messages[1][1] = ExternalMessage(<<>>)[1]
               /\ error_messages[2][1] = BrokenMessage(<<>>)[1]
        /\ stderr[mark + 1] = JoinTexts("\n", error_messages) \o <<"\n">>

C13_Witness ==
    /\ pc = "_finalize"
    /\ runs = 1
    /\ Len(error_messages) = 2
    /\ Len(errors) = 3
    /\ Len(new_library_recipe_needed) = 1

----------------------------------------------------------------------------
(* C14 *)

\* The collection holds a record that is neither broken nor external
HasOther(errs) == \E a \in 1..Len(errs) : ~IsBrokenLinkage(errs[a])

\* The position of the first such record
FirstOther(errs) ==
    CHOOSE a \in 1..Len(errs) :
        /\ ~IsBrokenLinkage(errs[a])
        /\ \A b \in 1..(a - 1) : IsBrokenLinkage(errs[b])

\* The library names of the first n records
NamesUpTo(errs, n) == {errs[a].dependent_library_name : a \in 1..n}

\* C14: a record that is neither broken nor external makes
\* _categorize_errors fail its assert at that record: the loop stops there
\* with the record's name added to names, nothing is written to stderr,
\* new_library_recipe_needed stays empty, _process_errors and _finalize are
\* not called and handle() issues no exit.
C14_NeitherAborts ==
    ("_categorize_errors" \in overrides /\ HasOther(errors)) =>
        /\ pc \in {"constructed", "_categorize_errors", "raised"}
        /\ idx <= FirstOther(errors)
        /\ stderr = <<>>
        /\ new_library_recipe_needed = <<>>
        /\ error_messages = Unset
        /\ exit_status = NoExit
        /\ IsPrefix(calls, <<"_categorize_errors">>)
        /\ pc = "raised" =>
               /\ raised = "AssertionError"
               /\ raised_in = "_categorize_errors"
               /\ idx = FirstOther(errors)
               /\ names = NamesUpTo(errors, idx)
               /\ broken \cup DictKeySet(extern) = NamesUpTo(errors, idx - 1)

C14_Witness ==
    /\ pc = "raised"
    /\ raised = "AssertionError"
    /\ Len(errors) = 3
    /\ idx = 2
    /\ ~IsBrokenLinkage(errors[2])
    /\ IsExternalLinkage(errors[1])
    /\ ~ignore_link_errors

----------------------------------------------------------------------------
(* C15 *)

\* C15: once _categorize_errors has completed the classification is
\* read-only: _process_errors and _finalize leave names, broken, extern and
\* new_library_recipe_needed unchanged, _finalize leaves error_messages
\* unchanged, and no step changes errors or ignore_link_errors.
C15_ReadOnlyAfterCategorize ==
    [][/\ errors' = errors
       /\ ignore_link_errors' = ignore_link_errors
       /\ pc \in {"_process_errors", "_finalize", "exit_check"} =>
              UNCHANGED <<names, broken, extern, new_library_recipe_needed>>
       /\ pc \in {"_finalize", "exit_check"} =>
              error_messages' = error_messages]_vars

C15_Witness ==
    /\ pc = "exit_check"
    /\ names # {}
    /\ broken # {}
    /\ new_library_recipe_needed # <<>>
    /\ error_messages # Unset

----------------------------------------------------------------------------
(* C16 *)

\* The actual_link_target of the last external record for library n
LastTarget(errs, n) ==
    LET hits == {a \in 1..Len(errs) :
                    /\ IsExternalLinkage(errs[a])
                    /\ errs[a].dependent_library_name = n}
        last == CHOOSE a \in hits : \A b \in hits : b <= a
    IN errs[last].actual_link_target

\* The mapping one categorization of errs leaves in extern
ExternOf(errs) ==
    LET keys == FirstOccurrences(ExternalNames(errs)) IN
    [j \in 1..Len(keys) |-> <<keys[j], LastTarget(errs, keys[j])>>]

RECURSIVE Repeat(_, _)
\* s concatenated n times
Repeat(s, n) == IF n = 0 THEN <<>> ELSE Repeat(s, n - 1) \o s

\* C16 as stated: whenever _categorize_errors has completed, on a first or
\* on a later handle() call of the instance, names, broken, extern and
\* new_library_recipe_needed are what a single run on the input yields.
C16_Idempotent ==
    CategorizeCompleted =>
        /\ names = NamesUpTo(errors, Len(errors))
        /\ broken = PlainBrokenNames(errors)
        /\ extern = ExternOf(errors)
        /\ new_library_recipe_needed = DictValues(ExternOf(errors))

\* C16, amended: names, broken and extern after a categorization are
\* determined by the input collection alone, the same on a fresh instance
\* and on a repeated handle() call; new_library_recipe_needed equals the
\* single-run result on a fresh instance only, and on the same instance it
\* grows by the values of extern with every completed categorization.
C16_IdempotentButForRecipes ==
    CategorizeCompleted =>
        /\ names = NamesUpTo(errors, Len(errors))
        /\ broken = PlainBrokenNames(errors)
        /\ extern = ExternOf(errors)
        /\ new_library_recipe_needed = Repeat(DictValues(ExternOf(errors)), runs)

C16_Witness ==
    /\ runs = 2
    /\ pc = "returned"
    /\ Len(extern) = 2
    /\ Len(new_library_recipe_needed) = 4
    /\ Len(errors) = 3

----------------------------------------------------------------------------
(* C17 *)

\* How the first handle() call on errs ends for a class supplying the
\* methods ov, as <<exception, method>>, or <<NoException, NoException>>
\* when all three phases complete; the flag is no argument of it
Fate(errs, ov) ==
    IF "_categorize_errors" \notin ov
        THEN <<"NotImplementedError", "_categorize_errors">>
    ELSE IF HasOther(errs) \/ Overlapping(errs)
        THEN <<"AssertionError", "_categorize_errors">>
    ELSE IF "_process_errors" \notin ov
        THEN <<"NotImplementedError", "_process_errors">>
    ELSE IF Len(errs) = 0
        THEN <<"AssertionError", "_process_errors">>
    ELSE <<NoException, NoException>>

\* The lists of messages _process_errors can build for errs
MessagesOf(errs) ==
    {BuildMessages(DictValues(ExternOf(errs)), libs) :
        libs \in Orderings(PlainBrokenNames(errs))}

\* C17: in the first handle() call every field, every write and every
\* failure is determined by the error collection and the class, whatever
\* ignore_link_errors is: two runs that differ only in the flag agree on
\* names, broken, extern, new_library_recipe_needed, error_messages, the
\* writes and the exception raised, and differ only in how a run that
\* completed _finalize ends, by return or by exit(1).
C17_FlagOnlyDecidesExit ==
    runs = 1 =>
        /\ pc = "_categorize_errors" =>
               /\ names = NamesUpTo(errors, idx - 1)
               /\ broken = PlainBrokenNames(SubSeq(errors, 1, idx - 1))
               /\ extern = ExternOf(SubSeq(errors, 1, idx - 1))
        /\ CategorizeCompleted =>
               /\ names = NamesUpTo(errors, Len(errors))
               /\ broken = PlainBrokenNames(errors)
               /\ extern = ExternOf(errors)
               /\ new_library_recipe_needed = DictValues(ExternOf(errors))
        /\ ~CategorizeCompleted => new_library_recipe_needed = <<>>
        /\ ProcessCompleted =>
               /\ error_messages \in MessagesOf(errors)
               /\ stderr[1] = JoinTexts("\n", error_messages) \o <<"\n">>
        /\ ~ProcessCompleted => (error_messages = Unset /\ stderr = <<>>)
        /\ pc = "_finalize" => Len(stderr) = 1
        /\ pc \in {"exit_check", "returned", "exited"} =>
               (Len(stderr) = 2 /\ stderr[2] = final_message \o <<"\n">>)
        /\ pc = "raised" => <<raised, raised_in>> = Fate(errors, overrides)
        /\ pc # "raised" => raised = NoException
        /\ Fate(errors, overrides)[1] # NoException =>
               pc \in {"_categorize_errors", "_process_errors", "raised"}
        /\ pc \in {"returned", "exited"} =>
               /\ Fate(errors, overrides)[1] = NoException
               /\ pc = IF ignore_link_errors THEN "returned" ELSE "exited"

\* An ignored overlap has still raised
C17_Witness ==
    /\ runs = 1
    /\ ignore_link_errors
    /\ pc = "raised"
    /\ raised = "AssertionError"
    /\ Overlapping(errors)
    /\ ~HasOther(errors)
    /\ Len(errors) = MaxErrors

----------------------------------------------------------------------------
(* C18 *)

\* C18: on an empty error collection _categorize_errors completes with all
\* fields empty and _process_errors then fails `assert msgs`: nothing is
\* written to stderr, error_messages is never assigned, _finalize is not
\* called and handle() issues no exit, whatever ignore_link_errors is.
C18_EmptyCollection ==
    (errors = <<>> /\ IsLinkErrorHandler) =>
        /\ names = {} /\ broken = {} /\ extern = <<>>
        /\ new_library_recipe_needed = <<>>
        /\ stderr = <<>>
        /\ error_messages = Unset
        /\ exit_status = NoExit
        /\ "_finalize" \notin Range(calls)
        /\ pc \in {"constructed", "_categorize_errors", "_process_errors",
                   "raised"}
        /\ pc = "raised" =>
               /\ raised = "AssertionError"
               /\ raised_in = "_process_errors"
               /\ calls = <<"_categorize_errors", "_process_errors">>

C18_Witness ==
    /\ errors = <<>>
    /\ IsLinkErrorHandler
    /\ pc = "raised"
    /\ raised_in = "_process_errors"
    /\ ~ignore_link_errors

----------------------------------------------------------------------------
(* Fairness: the interpreter keeps executing a running handle() *)

Step ==
    \/ CategorizeNotImplemented
    \/ CategorizeExternal
    \/ CategorizeBroken
    \/ CategorizeNeither
    \/ CategorizeOverlap
    \/ CategorizeFinish
    \/ ProcessNotImplemented
    \/ ProcessNoMessages
    \/ ProcessErrors
    \/ Finalize
    \/ Exit
    \/ ReturnToCaller

LiveSpec == Init /\ [][Next]_vars /\ WF_vars(Step)

====
